---- MODULE Spec2Model ----
(***************************************************************************)
(* Content-management backend: Express routes over two Mongoose            *)
(* collections (User, Content), guarded by the JWT middleware chain        *)
(* protect -> adminOnly / hasContentAccess.                                *)
(*                                                                         *)
(* Every request runs in a slot.  A handler is split at its awaits on the  *)
(* store: each action is one store operation together with the local code  *)
(* that follows it up to the next store operation, so requests interleave  *)
(* exactly where the event loop lets them.                                 *)
(*                                                                         *)
(* Text that a schema setter or generateSlug transforms (name, email,      *)
(* title, slug, category, tags) is a sequence of one-character strings;    *)
(* opaque text (password, body, messages) is a TLA+ string.                *)
(*                                                                         *)
(* The repository holds two variants of the author reference.  The model   *)
(* follows the one in which Content.author_id is the user's _id            *)
(* (contentController with populate, userModel without userId).  In the   *)
(* other variant userId is a required path that is only assigned in a     *)
(* save hook, which runs after validation.                                 *)
(***************************************************************************)
EXTENDS Integers, Sequences, FiniteSets, TLC

VARIABLES
    users,      \* User collection: _id -> document
    contents,   \* Content collection: _id -> document
    tokens,     \* every JWT signed so far with JWT_SECRET
    reqs,       \* request slots: the position and locals of each request
    nextUid,    \* number of User documents inserted so far
    nextCid,    \* number of Content documents inserted so far
    started,    \* number of requests received so far
    secret,     \* history: _id -> the plaintext of the last password written
    titleIn,    \* the title handed to generateSlug
    slugs       \* the successive results of generateSlug, oldest first

vars == <<users, contents, tokens, reqs, nextUid, nextCid, started, secret,
          titleIn, slugs>>

-----------------------------------------------------------------------------
(* Bounds *)

MaxUsers == 2       \* User documents inserted in one behaviour
MaxContents == 2    \* Content documents inserted in one behaviour
MaxRequests == 3    \* requests received in one behaviour

Slots == {1, 2}     \* requests in flight at the same time

-----------------------------------------------------------------------------
(* Text *)

UpperLetters ==
    <<"A", "B", "C", "D", "E", "F", "G", "H", "I", "J", "K", "L", "M",
      "N", "O", "P", "Q", "R", "S", "T", "U", "V", "W", "X", "Y", "Z">>

LowerLetters ==
    <<"a", "b", "c", "d", "e", "f", "g", "h", "i", "j", "k", "l", "m",
      "n", "o", "p", "q", "r", "s", "t", "u", "v", "w", "x", "y", "z">>

Digits == {"0", "1", "2", "3", "4", "5", "6", "7", "8", "9"}

Range(f) == {f[i] : i \in DOMAIN f}

LowerChar(c) ==
    IF c \in Range(UpperLetters)
        THEN LowerLetters[CHOOSE i \in DOMAIN UpperLetters : UpperLetters[i] = c]
        ELSE c

\* String.prototype.toLowerCase
ToLowerCase(s) == [i \in 1..Len(s) |-> LowerChar(s[i])]

\* the regular-expression classes \w and \s
IsWord(c) == c \in Range(UpperLetters) \cup Range(LowerLetters) \cup Digits \cup {"_"}

IsSpace(c) == c \in {" ", "\t", "\n", "\r"}

RECURSIVE TrimStart(_)
TrimStart(s) ==
    IF s # <<>> /\ IsSpace(Head(s)) THEN TrimStart(Tail(s)) ELSE s

RECURSIVE TrimEnd(_)
TrimEnd(s) ==
    IF s # <<>> /\ IsSpace(s[Len(s)]) THEN TrimEnd(SubSeq(s, 1, Len(s) - 1)) ELSE s

Trim(s) == TrimEnd(TrimStart(s))

-----------------------------------------------------------------------------
(* Request bodies: a record that holds exactly the fields that were sent *)

Has(b, f) == f \in DOMAIN b

\* JavaScript truthiness of an optional string field (undefined and "" are falsy)
TruthyText(b, f) == Has(b, f) /\ b[f] # <<>>
TruthyStr(b, f) == Has(b, f) /\ b[f] # ""
TruthyBool(b, f) == Has(b, f) /\ b[f]

-----------------------------------------------------------------------------
(* userModel *)

\* lowercase: true, trim: true
SetEmail(e) == ToLowerCase(Trim(e))

\* trim: true
SetName(n) == Trim(n)

\* setters also run when a filter is cast
CastEmailQuery(e) == SetEmail(e)

PasswordMinLength == 6

\* bcrypt.hash
Hash(p) == "$2a$10$" \o p

\* comparePassword: bcrypt.compare(entered, this.password)
comparePassword(u, entered) == u.password = Hash(entered)

NoRoles == [accessContent |-> FALSE, accessProduct |-> FALSE]

NoUser == [_id |-> 0]

\* a query result without the select: false path
Select(u) == [f \in DOMAIN u \ {"password"} |-> u[f]]

\* User.findById(id)
FindUserById(id) == IF id \in DOMAIN users THEN Select(users[id]) ELSE NoUser

\* User.findOne({ email })
FindUserByEmail(e) ==
    LET hits == {i \in DOMAIN users : users[i].email = CastEmailQuery(e)}
    IN  IF hits = {} THEN NoUser ELSE Select(users[CHOOSE i \in hits : TRUE])

\* User.findOne({ email }).select("+password")
FindUserByEmailWithPassword(e) ==
    LET hits == {i \in DOMAIN users : users[i].email = CastEmailQuery(e)}
    IN  IF hits = {} THEN NoUser ELSE users[CHOOSE i \in hits : TRUE]

NoToken == [kind |-> "none"]
BadToken == [kind |-> "bad"]

\* generateAuthToken: jwt.sign of the document's identity and role claims
generateAuthToken(u) ==
    [kind |-> "jwt", id |-> u._id, email |-> u.email,
     isAdmin |-> u.isAdmin, roles |-> u.roles]

MutEmailIndexOff(id, e) == FALSE

\* the unique index on email: would a document id with this email collide?
EmailIndexConflict(id, e) ==
    \E i \in DOMAIN users : i # id /\ users[i].email = e

MutPreSaveNoHash(mods) == mods

\* the save hook: the password is hashed only when the path is modified
PreSavePassword(mods) ==
    IF "password" \in DOMAIN mods
        THEN [mods EXCEPT !["password"] = Hash(mods["password"])]
        ELSE mods

\* the validators that run before the save hooks, on the modified paths
\* (every email of the inputs matches the schema's pattern and every name
\* is shorter than its maxlength, so those two validators always pass)
UserValid(mods) ==
    /\ "password" \in DOMAIN mods => Len(mods["password"]) >= PasswordMinLength
    /\ "name" \in DOMAIN mods => mods["name"] # <<>>
    /\ "email" \in DOMAIN mods => mods["email"] # <<>>

\* the document after $set of the modified paths
ApplyUserMods(u, mods) ==
    [_id |-> u._id,
     name |-> IF "name" \in DOMAIN mods THEN mods["name"] ELSE u.name,
     email |-> IF "email" \in DOMAIN mods THEN mods["email"] ELSE u.email,
     password |-> IF "password" \in DOMAIN mods THEN mods["password"] ELSE u.password,
     isAdmin |-> IF "isAdmin" \in DOMAIN mods THEN mods["isAdmin"] ELSE u.isAdmin,
     roles |->
        [accessContent |->
            IF "roles.accessContent" \in DOMAIN mods
                THEN mods["roles.accessContent"] ELSE u.roles.accessContent,
         accessProduct |->
            IF "roles.accessProduct" \in DOMAIN mods
                THEN mods["roles.accessProduct"] ELSE u.roles.accessProduct]]

-----------------------------------------------------------------------------
(* Requests *)

NoDoc == [_id |-> 0]
NoBody == [none |-> TRUE]
NoMods == [x \in {} |-> TRUE]
NoList == [data |-> <<>>, count |-> 0, total |-> 0, page |-> 0, pages |-> 0]

IdleReq ==
    [route |-> "", pc |-> "idle", auth |-> NoToken, param |-> 0,
     user |-> NoUser, body |-> NoBody, doc |-> NoDoc, mods |-> NoMods,
     author |-> NoUser, reached |-> "", status |-> 0, message |-> "", token |-> NoToken,
     query |-> NoBody, list |-> NoList]

\* res.status(code).json({ message }): the request is over and its locals
\* (req.user, the loaded document) are gone; what was asked and what was
\* answered stay in the slot until it is released.  The header stays when
\* the middleware has answered: no handler reads it.
Respond(r, code, msg) ==
    [r EXCEPT !.pc = "done", !.status = code, !.message = msg,
              !.auth = IF r.reached = "handler" THEN NoToken ELSE r.auth,
              !.user = NoUser, !.doc = NoDoc, !.mods = NoMods]


SetReq(s, r) == reqs' = [reqs EXCEPT ![s] = r]

-----------------------------------------------------------------------------
(* Routes (routes/userRoutes, routes/contentRoutes) *)

\* the capability middleware mounted on a route after protect ("" when public)
RouteGate(route) ==
    CASE route \in {"updateUser", "deleteUser"} -> "adminOnly"
      [] route \in {"createContent", "updateContent", "deleteContent"} -> "hasContentAccess"
      [] OTHER -> ""

\* a request arrives on the first free slot (the slots are interchangeable)
Free(s) ==
    /\ reqs[s].pc = "idle"
    /\ \A t \in Slots : t < s => reqs[t].pc # "idle"
    /\ started < MaxRequests

Arrive(route) == [IdleReq EXCEPT !.route = route, !.reached = "handler"]

\* the response has been sent and the slot is released
Close(s) ==
    /\ reqs[s].pc = "done"
    /\ SetReq(s, IdleReq)
    /\ UNCHANGED <<users, contents, tokens, nextUid, nextCid, started, secret, titleIn, slugs>>

-----------------------------------------------------------------------------
(* middleware/auth *)

MutProtectSkipLookup(r) ==
    IF r.auth.kind = "none"
        THEN Respond(r, 401, "Not authorized to access this route. Please login.")
    ELSE IF r.auth.kind = "bad"
        THEN Respond(r, 401, "Not authorized, token failed or expired")
    ELSE [r EXCEPT !.user = [_id |-> r.auth.id, isAdmin |-> r.auth.isAdmin,
                             roles |-> r.auth.roles],
                   !.pc = RouteGate(r.route)]

MutProtectTrustsClaims(r) ==
    IF r.auth.kind = "none"
        THEN Respond(r, 401, "Not authorized to access this route. Please login.")
    ELSE IF r.auth.kind = "bad"
        THEN Respond(r, 401, "Not authorized, token failed or expired")
    ELSE IF FindUserById(r.auth.id)._id = 0
        THEN Respond(r, 401, "User not found")
    ELSE [r EXCEPT !.user = [FindUserById(r.auth.id) EXCEPT
                                !.isAdmin = r.auth.isAdmin, !.roles = r.auth.roles],
                   !.pc = RouteGate(r.route)]

\* protect: the request after the token check and the lookup of its user
ProtectResult(r) ==
    IF r.auth.kind = "none"
        THEN Respond(r, 401, "Not authorized to access this route. Please login.")
    ELSE IF r.auth.kind = "bad"
        THEN Respond(r, 401, "Not authorized, token failed or expired")
    ELSE IF FindUserById(r.auth.id)._id = 0
        THEN Respond(r, 401, "User not found")
    ELSE [r EXCEPT !.user = FindUserById(r.auth.id), !.pc = RouteGate(r.route)]

\* a request to a guarded route arrives with some Authorization header
Protect(s, routes) ==
    /\ Free(s)
    /\ \E route \in routes, auth \in {NoToken, BadToken} \cup tokens :
        SetReq(s, ProtectResult([Arrive(route) EXCEPT !.auth = auth,
                                                     !.reached = "protect"]))
    /\ started' = started + 1
    /\ UNCHANGED <<users, contents, tokens, nextUid, nextCid, secret, titleIn, slugs>>

adminOnly(u) == u._id # 0 /\ u.isAdmin

MutContentAccessAdminOnly(u) == u._id # 0 /\ u.isAdmin

hasContentAccess(u) == u._id # 0 /\ (u.isAdmin \/ u.roles.accessContent)

hasProductAccess(u) == u._id # 0 /\ (u.isAdmin \/ u.roles.accessProduct)

AdminOnly(s) ==
    LET r == [reqs[s] EXCEPT !.reached = "adminOnly"]
    IN  /\ reqs[s].pc = "adminOnly"
        /\ SetReq(s, IF adminOnly(r.user)
                        THEN [r EXCEPT !.pc = r.route, !.reached = "handler"]
                        ELSE Respond(r, 403, "Access denied. Admin privileges required."))
        /\ UNCHANGED <<users, contents, tokens, nextUid, nextCid, started, secret, titleIn, slugs>>

HasContentAccess(s) ==
    LET r == [reqs[s] EXCEPT !.reached = "hasContentAccess"]
    IN  /\ reqs[s].pc = "hasContentAccess"
        /\ SetReq(s, IF hasContentAccess(r.user)
                        THEN [r EXCEPT !.pc = r.route, !.reached = "handler"]
                        ELSE Respond(r, 403, "Access denied. Content access permission required."))
        /\ UNCHANGED <<users, contents, tokens, nextUid, nextCid, started, secret, titleIn, slugs>>

-----------------------------------------------------------------------------
(* userController: inputs *)

NameAnn == <<"a", "n", "n">>
NameBob == <<"b", "o", "b">>
EmailA == <<"a", "@", "x", ".", "i", "o">>
EmailAUpper == <<"A", "@", "x", ".", "i", "o", " ">>
EmailB == <<"b", "@", "x", ".", "i", "o">>

Passwords == {"secret1", "secret2"}
ShortPassword == "abc"

RegisterBodies ==
    {[name |-> NameAnn, email |-> e, password |-> "secret1"] :
        e \in {EmailA, EmailAUpper, EmailB}}
    \cup {[name |-> NameAnn, email |-> EmailB, password |-> "secret1", isAdmin |-> TRUE],
          [name |-> NameAnn, email |-> EmailA, password |-> "secret1",
           roles |-> [accessContent |-> TRUE]],
          [name |-> NameAnn, email |-> EmailA, password |-> ShortPassword],
          [name |-> NameAnn, email |-> EmailA]}

LoginBodies ==
    {[email |-> e, password |-> p] : e \in {EmailA, EmailAUpper, EmailB}, p \in Passwords}
    \cup {[email |-> EmailA]}

UpdateUserBodies ==
    {[name |-> NameBob],
     [email |-> EmailA], [email |-> EmailB],
     [password |-> "secret2"], [password |-> ShortPassword],
     [isAdmin |-> TRUE], [isAdmin |-> FALSE],
     [roles |-> [accessContent |-> TRUE]], [roles |-> [accessContent |-> FALSE]],
     [roles |-> [accessProduct |-> TRUE]],
     [email |-> EmailB, isAdmin |-> FALSE]}

\* req.params.id: an _id that is stored, was stored or is not stored yet
UserParams == 1..MaxUsers

-----------------------------------------------------------------------------
(* userController.registerUser *)

\* new User({...}): the paths the controller sets, after the schema setters
NewUserPaths(body) ==
    [name |-> SetName(body.name),
     email |-> SetEmail(body.email),
     password |-> body.password,
     isAdmin |-> TruthyBool(body, "isAdmin")]
    @@ ("roles.accessContent" :>
            (Has(body, "roles") /\ TruthyBool(body.roles, "accessContent")))
    @@ ("roles.accessProduct" :>
            (Has(body, "roles") /\ TruthyBool(body.roles, "accessProduct")))

BlankUser(id) ==
    [_id |-> id, name |-> <<>>, email |-> <<>>, password |-> "",
     isAdmin |-> FALSE, roles |-> NoRoles]

\* validation of the body, then the lookup of the email
RegisterUserFrom(s, bodies) ==
    /\ Free(s)
    /\ \E body \in bodies :
        LET r == [Arrive("registerUser") EXCEPT !.body = body]
        IN  SetReq(s,
                IF ~(TruthyText(body, "name") /\ TruthyText(body, "email")
                        /\ TruthyStr(body, "password"))
                    THEN Respond(r, 400, "Please provide name, email, and password")
                ELSE IF FindUserByEmail(body.email)._id # 0
                    THEN Respond(r, 400, "User with this email already exists")
                ELSE [r EXCEPT !.pc = "registerUser.save", !.mods = NewUserPaths(body)])
    /\ started' = started + 1
    /\ UNCHANGED <<users, contents, tokens, nextUid, nextCid, secret, titleIn, slugs>>

RegisterUser(s) == RegisterUserFrom(s, RegisterBodies)

\* user.save() of the new document, then the token and the 201
RegisterUserSave(s) ==
    LET r == reqs[s]
        id == nextUid + 1
        saved == ApplyUserMods(BlankUser(id), PreSavePassword(r.mods))
    IN  /\ r.pc = "registerUser.save"
        /\ IF ~UserValid(r.mods) \/ EmailIndexConflict(id, r.mods["email"])
              THEN /\ SetReq(s, Respond(r, 500, "Server error"))
                   /\ UNCHANGED <<users, tokens, nextUid, secret>>
              ELSE /\ nextUid < MaxUsers
                   /\ users' = (id :> saved) @@ users
                   /\ secret' = (id :> r.mods["password"]) @@ secret
                   /\ nextUid' = id
                   /\ tokens' = tokens \cup {generateAuthToken(saved)}
                   /\ SetReq(s, [Respond(r, 201, "User registered successfully")
                                    EXCEPT !.token = generateAuthToken(saved)])
        /\ UNCHANGED <<contents, nextCid, started, titleIn, slugs>>

-----------------------------------------------------------------------------
(* userController.loginUser *)

MutLoginTellsUnknown(r, u) ==
    IF u._id = 0
        THEN Respond(r, 404, "User not found")
    ELSE IF ~comparePassword(u, r.body.password)
        THEN Respond(r, 401, "Invalid credentials")
    ELSE [Respond(r, 200, "Login successful") EXCEPT !.token = generateAuthToken(u)]

\* the response once findOne has returned u (NoUser when there is none)
LoginResult(r, u) ==
    IF u._id = 0
        THEN Respond(r, 401, "Invalid credentials")
    ELSE IF ~comparePassword(u, r.body.password)
        THEN Respond(r, 401, "Invalid credentials")
    ELSE [Respond(r, 200, "Login successful") EXCEPT !.token = generateAuthToken(u)]

LoginUser(s) ==
    /\ Free(s)
    /\ \E body \in LoginBodies :
        LET r == [Arrive("loginUser") EXCEPT !.body = body]
            res == IF ~(TruthyText(body, "email") /\ TruthyStr(body, "password"))
                      THEN Respond(r, 400, "Please provide email and password")
                      ELSE LoginResult(r, FindUserByEmailWithPassword(body.email))
        IN  /\ SetReq(s, res)
            /\ tokens' = IF res.status = 200 THEN tokens \cup {res.token} ELSE tokens
    /\ started' = started + 1
    /\ UNCHANGED <<users, contents, nextUid, nextCid, secret, titleIn, slugs>>

-----------------------------------------------------------------------------
(* userController.updateUser *)

\* doc.path = value marks the path modified only when the value changes
SetPath(doc, mods, path, old, value) ==
    IF value = old /\ path \notin DOMAIN mods THEN mods ELSE (path :> value) @@ mods

\* if (name) user.name = name
AssignName(r) ==
    IF TruthyText(r.body, "name")
        THEN [r EXCEPT !.mods = SetPath(r.doc, r.mods, "name", r.doc.name,
                                        SetName(r.body.name))]
        ELSE r

\* user.email = email
AssignEmail(r) ==
    [r EXCEPT !.mods = SetPath(r.doc, r.mods, "email", r.doc.email,
                               SetEmail(r.body.email))]

\* if (password) user.password = password; the loaded document holds no
\* password (select: false), so the path is modified whenever it is assigned
AssignPassword(r) ==
    IF TruthyStr(r.body, "password")
        THEN [r EXCEPT !.mods = ("password" :> r.body.password) @@ r.mods]
        ELSE r

\* if (isAdmin !== undefined) user.isAdmin = isAdmin
AssignIsAdmin(r) ==
    IF Has(r.body, "isAdmin")
        THEN [r EXCEPT !.mods = SetPath(r.doc, r.mods, "isAdmin", r.doc.isAdmin,
                                        r.body.isAdmin)]
        ELSE r

\* if (roles) { each of the two flags that is not undefined }
AssignRoles(r) ==
    LET r1 == IF Has(r.body, "roles") /\ Has(r.body.roles, "accessContent")
                 THEN [r EXCEPT !.mods = SetPath(r.doc, r.mods, "roles.accessContent",
                            r.doc.roles.accessContent, r.body.roles.accessContent)]
                 ELSE r
    IN  IF Has(r.body, "roles") /\ Has(r.body.roles, "accessProduct")
           THEN [r1 EXCEPT !.mods = SetPath(r.doc, r1.mods, "roles.accessProduct",
                            r.doc.roles.accessProduct, r.body.roles.accessProduct)]
           ELSE r1

\* the assignments after the email block, up to user.save()
AssignRest(r) ==
    [AssignRoles(AssignIsAdmin(AssignPassword(r))) EXCEPT !.pc = "updateUser.save"]

\* User.findById(req.params.id), then the assignments up to the next await
UpdateUserFrom(s, bodies) ==
    /\ reqs[s].pc = "updateUser"
    /\ \E body \in bodies, id \in UserParams :
        LET r == [reqs[s] EXCEPT !.body = body, !.param = id, !.doc = FindUserById(id)]
        IN  SetReq(s,
                IF r.doc._id = 0
                    THEN Respond(r, 404, "User not found")
                ELSE IF TruthyText(body, "email")
                    THEN [AssignName(r) EXCEPT !.pc = "updateUser.email"]
                ELSE AssignRest(AssignName(r)))
    /\ UNCHANGED <<users, contents, tokens, nextUid, nextCid, started, secret, titleIn, slugs>>

UpdateUser(s) == UpdateUserFrom(s, UpdateUserBodies)

MutUpdateUserEmailSavesFirst(s) ==
    LET r == reqs[s]
        existingUser == FindUserByEmail(r.body.email)
        early == AssignIsAdmin(r).mods
    IN  /\ r.pc = "updateUser.email"
        /\ IF existingUser._id # 0 /\ existingUser._id # r.param
              THEN /\ SetReq(s, Respond(r, 400, "Email already in use"))
                   /\ users' = IF r.param \in DOMAIN users
                                   THEN [users EXCEPT ![r.param] = ApplyUserMods(@, early)]
                                   ELSE users
              ELSE /\ SetReq(s, AssignRest(AssignEmail(r)))
                   /\ UNCHANGED users
        /\ UNCHANGED <<contents, tokens, nextUid, nextCid, started, secret, titleIn, slugs>>

\* User.findOne({ email }): is the email held by another user?
UpdateUserEmail(s) ==
    LET r == reqs[s]
        existingUser == FindUserByEmail(r.body.email)
    IN  /\ r.pc = "updateUser.email"
        /\ SetReq(s,
                IF existingUser._id # 0 /\ existingUser._id # r.param
                    THEN Respond(r, 400, "Email already in use")
                    ELSE AssignRest(AssignEmail(r)))
        /\ UNCHANGED <<users, contents, tokens, nextUid, nextCid, started, secret, titleIn, slugs>>

\* user.save(): validation, the password hook, then $set of the modified paths
UpdateUserSave(s) ==
    LET r == reqs[s]
        id == r.doc._id
        ok == Respond(r, 200, "User updated successfully")
    IN  /\ r.pc = "updateUser.save"
        /\ IF DOMAIN r.mods = {}
              THEN /\ SetReq(s, ok)
                   /\ UNCHANGED <<users, secret>>
           ELSE IF \/ ~UserValid(r.mods)
                   \/ id \notin DOMAIN users
                   \/ ("email" \in DOMAIN r.mods /\ EmailIndexConflict(id, r.mods["email"]))
              THEN /\ SetReq(s, Respond(r, 500, "Server error"))
                   /\ UNCHANGED <<users, secret>>
           ELSE /\ users' = [users EXCEPT ![id] = ApplyUserMods(@, PreSavePassword(r.mods))]
                /\ secret' = IF "password" \in DOMAIN r.mods
                                THEN [secret EXCEPT ![id] = r.mods["password"]]
                                ELSE secret
                /\ SetReq(s, ok)
        /\ UNCHANGED <<contents, tokens, nextUid, nextCid, started, titleIn, slugs>>

-----------------------------------------------------------------------------
(* userController.deleteUser *)

DeleteUser(s) ==
    /\ reqs[s].pc = "deleteUser"
    /\ \E id \in UserParams :
        LET r == [reqs[s] EXCEPT !.param = id, !.doc = FindUserById(id)]
        IN  SetReq(s, IF r.doc._id = 0
                         THEN Respond(r, 404, "User not found")
                         ELSE [r EXCEPT !.pc = "deleteUser.delete"])
    /\ UNCHANGED <<users, contents, tokens, nextUid, nextCid, started, secret, titleIn, slugs>>

\* user.deleteOne()
DeleteUserDelete(s) ==
    LET r == reqs[s]
        rest == DOMAIN users \ {r.doc._id}
    IN  /\ r.pc = "deleteUser.delete"
        /\ users' = [i \in rest |-> users[i]]
        /\ secret' = [i \in rest |-> secret[i]]
        /\ SetReq(s, Respond(r, 200, "User deleted successfully"))
        /\ UNCHANGED <<contents, tokens, nextUid, nextCid, started, titleIn, slugs>>

-----------------------------------------------------------------------------
(* The credential routes alone, from empty collections *)

NoDocs == [i \in {} |-> NoDoc]

Init ==
    /\ users = NoDocs
    /\ contents = NoDocs
    /\ tokens = {}
    /\ reqs = [s \in Slots |-> IdleReq]
    /\ nextUid = 0
    /\ nextCid = 0
    /\ started = 0
    /\ secret = [i \in {} |-> ""]
    /\ titleIn = <<>>
    /\ slugs = <<>>

NextUser ==
    \E s \in Slots :
        \/ Protect(s, {"updateUser", "deleteUser"})
        \/ AdminOnly(s)
        \/ RegisterUser(s)
        \/ RegisterUserSave(s)
        \/ LoginUser(s)
        \/ UpdateUser(s)
        \/ UpdateUserEmail(s)
        \/ UpdateUserSave(s)
        \/ DeleteUser(s)
        \/ DeleteUserDelete(s)
        \/ Close(s)

SpecUser == Init /\ [][NextUser]_vars

-----------------------------------------------------------------------------
(* contentController.generateSlug *)

\* .replace(/[^\w\s-]/g, "")
StripOther(s) == SelectSeq(s, LAMBDA c : IsWord(c) \/ IsSpace(c) \/ c = "-")

\* .replace(/\s+/g, "-")
RECURSIVE SpacesToHyphen(_)
SpacesToHyphen(s) ==
    IF s = <<>> THEN <<>>
    ELSE IF IsSpace(Head(s))
        THEN <<"-">> \o SpacesToHyphen(TrimStart(s))
        ELSE <<Head(s)>> \o SpacesToHyphen(Tail(s))

RECURSIVE DropHyphens(_)
DropHyphens(s) ==
    IF s # <<>> /\ Head(s) = "-" THEN DropHyphens(Tail(s)) ELSE s

\* .replace(/--+/g, "-")
RECURSIVE CollapseHyphens(_)
CollapseHyphens(s) ==
    IF s = <<>> THEN <<>>
    ELSE IF Head(s) = "-"
        THEN <<"-">> \o CollapseHyphens(DropHyphens(s))
        ELSE <<Head(s)>> \o CollapseHyphens(Tail(s))

MutGenerateSlugNoStrip(title) ==
    Trim(CollapseHyphens(SpacesToHyphen(ToLowerCase(title))))

MutGenerateSlugCollapseFirst(title) ==
    Trim(SpacesToHyphen(CollapseHyphens(StripOther(ToLowerCase(title)))))

generateSlug(title) ==
    Trim(CollapseHyphens(SpacesToHyphen(StripOther(ToLowerCase(title)))))

-----------------------------------------------------------------------------
(* contentModel *)

TitleMaxLength == 200

Statuses == {"draft", "published"}

\* lowercase: true
SetSlug(x) == ToLowerCase(x)

\* trim: true
SetCategory(c) == Trim(c)

\* tags: [{ type: String, trim: true }]
SetTags(ts) == [i \in 1..Len(ts) |-> Trim(ts[i])]

CastSlugQuery(x) == SetSlug(x)

\* Content.findById(id)
FindContentById(id) == IF id \in DOMAIN contents THEN contents[id] ELSE NoDoc

\* Content.findOne({ slug })
FindContentBySlug(x) ==
    LET hits == {i \in DOMAIN contents : contents[i].slug = CastSlugQuery(x)}
    IN  IF hits = {} THEN NoDoc ELSE contents[CHOOSE i \in hits : TRUE]

MutSlugIndexOff(id, x) == FALSE

\* the unique index on slug: would a document id with this slug collide?
SlugIndexConflict(id, x) ==
    \E i \in DOMAIN contents : i # id /\ contents[i].slug = x

\* the validators, on the modified paths
ContentValid(mods) ==
    /\ "title" \in DOMAIN mods =>
            mods["title"] # <<>> /\ Len(mods["title"]) <= TitleMaxLength
    /\ "slug" \in DOMAIN mods => mods["slug"] # <<>>
    /\ "body" \in DOMAIN mods => mods["body"] # ""
    /\ "category" \in DOMAIN mods => mods["category"] # <<>>
    /\ "author_id" \in DOMAIN mods => mods["author_id"] # 0
    /\ "status" \in DOMAIN mods => mods["status"] \in Statuses

MutApplyWholeDocument(c, mods) ==
    [_id |-> c._id,
     title |-> IF "title" \in DOMAIN mods THEN mods["title"] ELSE <<>>,
     slug |-> IF "slug" \in DOMAIN mods THEN mods["slug"] ELSE c.slug,
     body |-> IF "body" \in DOMAIN mods THEN mods["body"] ELSE "",
     category |-> IF "category" \in DOMAIN mods THEN mods["category"] ELSE <<>>,
     tags |-> IF "tags" \in DOMAIN mods THEN mods["tags"] ELSE <<>>,
     author_id |-> IF "author_id" \in DOMAIN mods THEN mods["author_id"] ELSE c.author_id,
     status |-> IF "status" \in DOMAIN mods THEN mods["status"] ELSE "draft"]

\* the document after $set of the modified paths
ApplyContentMods(c, mods) ==
    [_id |-> c._id,
     title |-> IF "title" \in DOMAIN mods THEN mods["title"] ELSE c.title,
     slug |-> IF "slug" \in DOMAIN mods THEN mods["slug"] ELSE c.slug,
     body |-> IF "body" \in DOMAIN mods THEN mods["body"] ELSE c.body,
     category |-> IF "category" \in DOMAIN mods THEN mods["category"] ELSE c.category,
     tags |-> IF "tags" \in DOMAIN mods THEN mods["tags"] ELSE c.tags,
     author_id |-> IF "author_id" \in DOMAIN mods THEN mods["author_id"] ELSE c.author_id,
     status |-> IF "status" \in DOMAIN mods THEN mods["status"] ELSE c.status]

BlankContent(id) ==
    [_id |-> id, title |-> <<>>, slug |-> <<>>, body |-> "", category |-> <<>>,
     tags |-> <<>>, author_id |-> 0, status |-> "draft"]

MutPopulateUnresolved(author_id) == [_id |-> author_id]

\* populate("author_id", "name email userId"): null when the user is gone
Populate(author_id) ==
    IF author_id \in DOMAIN users
        THEN [_id |-> author_id, name |-> users[author_id].name,
              email |-> users[author_id].email]
        ELSE NoUser

-----------------------------------------------------------------------------
(* contentController: inputs *)

TitleAB == <<"A", " ", "b">>
TitleAB2 == <<"a", "-", "-", "b", "!">>
TitleC == <<"c">>
TitleBang == <<"!", "!">>
SlugAB == <<"a", "-", "b">>
SlugABUpper == <<"A", "-", "B">>
SlugX == <<"x">>
CategoryNews == <<"n", "e", "w", "s">>
CategoryTech == <<" ", "t", "e", "c", "h">>
TagsOne == << <<"t", "1">> >>

CreateContentBodies ==
    {[title |-> TitleAB, body |-> "text", category |-> CategoryNews],
     [title |-> TitleAB2, body |-> "text", category |-> CategoryNews,
      status |-> "published", tags |-> TagsOne],
     [title |-> TitleC, body |-> "text", category |-> CategoryNews, slug |-> SlugABUpper],
     [title |-> TitleC, body |-> "text", category |-> CategoryNews, slug |-> SlugX,
      author_id |-> 3],
     [title |-> TitleBang, body |-> "text", category |-> CategoryNews],
     [title |-> TitleC, category |-> CategoryNews]}

UpdateContentBodies ==
    {[status |-> "published"],
     [title |-> TitleC],
     [slug |-> SlugX],
     [slug |-> SlugAB],
     [body |-> "more", category |-> CategoryTech, tags |-> TagsOne],
     [status |-> "archived"],
     [title |-> <<>>, status |-> "draft"]}

\* req.params.id: an _id that is stored, was stored or is not stored yet
ContentParams == 1..MaxContents

-----------------------------------------------------------------------------
(* contentController.createContent *)

\* const finalSlug = slug || generateSlug(title)
FinalSlug(body) == IF TruthyText(body, "slug") THEN body.slug ELSE generateSlug(body.title)

MutAuthorFromBody(body, user) ==
    [title |-> body.title,
     slug |-> SetSlug(FinalSlug(body)),
     body |-> body.body,
     category |-> SetCategory(body.category),
     tags |-> IF Has(body, "tags") THEN SetTags(body.tags) ELSE <<>>,
     author_id |-> IF Has(body, "author_id") THEN body.author_id ELSE user._id,
     status |-> IF TruthyStr(body, "status") THEN body.status ELSE "draft"]

\* new Content({...}): the paths the controller sets, after the schema setters
NewContentPaths(body, user) ==
    [title |-> body.title,
     slug |-> SetSlug(FinalSlug(body)),
     body |-> body.body,
     category |-> SetCategory(body.category),
     tags |-> IF Has(body, "tags") THEN SetTags(body.tags) ELSE <<>>,
     author_id |-> user._id,
     status |-> IF TruthyStr(body, "status") THEN body.status ELSE "draft"]

\* validation of the body, then the lookup of the slug
CreateContentFrom(s, bodies) ==
    /\ reqs[s].pc = "createContent"
    /\ \E body \in bodies :
        LET r == [reqs[s] EXCEPT !.body = body]
        IN  SetReq(s,
                IF ~(TruthyText(body, "title") /\ TruthyStr(body, "body")
                        /\ TruthyText(body, "category"))
                    THEN Respond(r, 400,
                            "Please provide all required fields: title, body, category")
                ELSE IF FindContentBySlug(FinalSlug(body))._id # 0
                    THEN Respond(r, 400, "A post with this slug already exists")
                ELSE [r EXCEPT !.pc = "createContent.save",
                               !.mods = NewContentPaths(body, r.user)])
    /\ UNCHANGED <<users, contents, tokens, nextUid, nextCid, started, secret, titleIn, slugs>>

CreateContent(s) == CreateContentFrom(s, CreateContentBodies)

\* content.save() of the new document
CreateContentSave(s) ==
    LET r == reqs[s]
        id == nextCid + 1
        saved == ApplyContentMods(BlankContent(id), r.mods)
    IN  /\ r.pc = "createContent.save"
        /\ IF ~ContentValid(r.mods) \/ SlugIndexConflict(id, r.mods["slug"])
              THEN /\ SetReq(s, Respond(r, 500, "Server error"))
                   /\ UNCHANGED <<contents, nextCid>>
              ELSE /\ nextCid < MaxContents
                   /\ contents' = (id :> saved) @@ contents
                   /\ nextCid' = id
                   /\ SetReq(s, [r EXCEPT !.pc = "createContent.populate", !.doc = saved,
                                          !.mods = NoMods])
        /\ UNCHANGED <<users, tokens, nextUid, started, secret, titleIn, slugs>>

\* content.populate("author_id", ...), then the 201
CreateContentPopulate(s) ==
    LET r == reqs[s]
    IN  /\ r.pc = "createContent.populate"
        /\ SetReq(s, [Respond(r, 201, "Content created successfully")
                        EXCEPT !.param = r.doc._id, !.author = Populate(r.doc.author_id)])
        /\ UNCHANGED <<users, contents, tokens, nextUid, nextCid, started, secret, titleIn, slugs>>

-----------------------------------------------------------------------------
(* contentController.updateContent *)

MutMayModifyAnyone(content, user) == TRUE

\* the negation of the 403 test: the actor is the author or an admin
MayModify(content, user) == ~(content.author_id # user._id /\ ~user.isAdmin)

\* the assignments "if (field) content.field = field", up to content.save()
AssignContent(r) ==
    LET b == r.body
        d == r.doc
        m1 == IF TruthyText(b, "title")
                 THEN SetPath(d, r.mods, "title", d.title, b.title) ELSE r.mods
        m2 == IF TruthyText(b, "slug")
                 THEN SetPath(d, m1, "slug", d.slug, SetSlug(b.slug)) ELSE m1
        m3 == IF TruthyStr(b, "body")
                 THEN SetPath(d, m2, "body", d.body, b.body) ELSE m2
        m4 == IF TruthyText(b, "category")
                 THEN SetPath(d, m3, "category", d.category, SetCategory(b.category)) ELSE m3
        m5 == IF Has(b, "tags")
                 THEN SetPath(d, m4, "tags", d.tags, SetTags(b.tags)) ELSE m4
        m6 == IF TruthyStr(b, "status")
                 THEN SetPath(d, m5, "status", d.status, b.status) ELSE m5
    IN  [r EXCEPT !.mods = m6, !.pc = "updateContent.save"]

\* Content.findById, the ownership test, then up to the next await
UpdateContentFrom(s, bodies) ==
    /\ reqs[s].pc = "updateContent"
    /\ \E body \in bodies, id \in ContentParams :
        LET r == [reqs[s] EXCEPT !.body = body, !.param = id, !.doc = FindContentById(id)]
        IN  SetReq(s,
                IF r.doc._id = 0
                    THEN Respond(r, 404, "Content not found")
                ELSE IF ~MayModify(r.doc, r.user)
                    THEN Respond(r, 403, "Not authorized to update this content")
                ELSE IF TruthyText(body, "slug") /\ body.slug # r.doc.slug
                    THEN [r EXCEPT !.pc = "updateContent.slug"]
                ELSE AssignContent(r))
    /\ UNCHANGED <<users, contents, tokens, nextUid, nextCid, started, secret, titleIn, slugs>>

UpdateContent(s) == UpdateContentFrom(s, UpdateContentBodies)

\* Content.findOne({ slug }): is the new slug taken?
UpdateContentSlug(s) ==
    LET r == reqs[s]
    IN  /\ r.pc = "updateContent.slug"
        /\ SetReq(s,
                IF FindContentBySlug(r.body.slug)._id # 0
                    THEN Respond(r, 400, "A post with this slug already exists")
                    ELSE AssignContent(r))
        /\ UNCHANGED <<users, contents, tokens, nextUid, nextCid, started, secret, titleIn, slugs>>

\* content.save(): validation, then $set of the modified paths
UpdateContentSave(s) ==
    LET r == reqs[s]
        id == r.doc._id
    IN  /\ r.pc = "updateContent.save"
        /\ IF DOMAIN r.mods = {}
              THEN /\ SetReq(s, [r EXCEPT !.pc = "updateContent.populate"])
                   /\ UNCHANGED contents
           ELSE IF \/ ~ContentValid(r.mods)
                   \/ id \notin DOMAIN contents
                   \/ ("slug" \in DOMAIN r.mods /\ SlugIndexConflict(id, r.mods["slug"]))
              THEN /\ SetReq(s, Respond(r, 500, "Server error"))
                   /\ UNCHANGED contents
           ELSE /\ contents' = [contents EXCEPT ![id] = ApplyContentMods(@, r.mods)]
                /\ SetReq(s, [r EXCEPT !.pc = "updateContent.populate"])
        /\ UNCHANGED <<users, tokens, nextUid, nextCid, started, secret, titleIn, slugs>>

\* content.populate("author_id", ...), then the 200
UpdateContentPopulate(s) ==
    LET r == reqs[s]
    IN  /\ r.pc = "updateContent.populate"
        /\ SetReq(s, [Respond(r, 200, "Content updated successfully")
                        EXCEPT !.author = Populate(r.doc.author_id)])
        /\ UNCHANGED <<users, contents, tokens, nextUid, nextCid, started, secret, titleIn, slugs>>

-----------------------------------------------------------------------------
(* contentController.deleteContent *)

DeleteContent(s) ==
    /\ reqs[s].pc = "deleteContent"
    /\ \E id \in ContentParams :
        LET r == [reqs[s] EXCEPT !.param = id, !.doc = FindContentById(id)]
        IN  SetReq(s,
                IF r.doc._id = 0
                    THEN Respond(r, 404, "Content not found")
                ELSE IF ~MayModify(r.doc, r.user)
                    THEN Respond(r, 403, "Not authorized to delete this content")
                ELSE [r EXCEPT !.pc = "deleteContent.delete"])
    /\ UNCHANGED <<users, contents, tokens, nextUid, nextCid, started, secret, titleIn, slugs>>

\* content.deleteOne()
DeleteContentDelete(s) ==
    LET r == reqs[s]
    IN  /\ r.pc = "deleteContent.delete"
        /\ contents' = [i \in DOMAIN contents \ {r.doc._id} |-> contents[i]]
        /\ SetReq(s, Respond(r, 200, "Content deleted successfully"))
        /\ UNCHANGED <<users, tokens, nextUid, nextCid, started, secret, titleIn, slugs>>

-----------------------------------------------------------------------------
(* The content routes, over a registered population *)

\* three users as registerUser stores them, each with the token it was given:
\* an admin, a holder of accessContent and a holder of accessProduct
Registered(id, email, isAdmin, roles) ==
    [_id |-> id, name |-> NameAnn, email |-> email, password |-> Hash("secret1"),
     isAdmin |-> isAdmin, roles |-> roles]

EmailC == <<"c", "@", "x", ".", "i", "o">>

Population ==
    <<Registered(1, EmailA, TRUE, NoRoles),
      Registered(2, EmailB, FALSE, [accessContent |-> TRUE, accessProduct |-> FALSE]),
      Registered(3, EmailC, FALSE, [accessContent |-> FALSE, accessProduct |-> TRUE])>>

InitContent ==
    /\ users = Population
    /\ contents = NoDocs
    /\ tokens = {generateAuthToken(Population[i]) : i \in DOMAIN Population}
    /\ reqs = [s \in Slots |-> IdleReq]
    /\ nextUid = Len(Population)
    /\ nextCid = 0
    /\ started = 0
    /\ secret = [i \in DOMAIN Population |-> "secret1"]
    /\ titleIn = <<>>
    /\ slugs = <<>>

Next ==
    \E s \in Slots :
        \/ Protect(s, {"createContent", "updateContent", "deleteContent"})
        \/ HasContentAccess(s)
        \/ CreateContent(s)
        \/ CreateContentSave(s)
        \/ CreateContentPopulate(s)
        \/ UpdateContent(s)
        \/ UpdateContentSlug(s)
        \/ UpdateContentSave(s)
        \/ UpdateContentPopulate(s)
        \/ DeleteContent(s)
        \/ DeleteContentDelete(s)
        \/ Close(s)

Spec == InitContent /\ [][Next]_vars

-----------------------------------------------------------------------------
(* Both capability checks: createContent and deleteUser, same population *)

NextAccess ==
    \E s \in Slots :
        \/ Protect(s, {"createContent", "deleteUser"})
        \/ AdminOnly(s)
        \/ HasContentAccess(s)
        \/ CreateContent(s)
        \/ CreateContentSave(s)
        \/ CreateContentPopulate(s)
        \/ DeleteUser(s)
        \/ DeleteUserDelete(s)
        \/ Close(s)

SpecAccess == InitContent /\ [][NextAccess]_vars

-----------------------------------------------------------------------------
(* generateSlug on its own: every title up to MaxTitleLen over TitleChars, *)
(* slugged and then slugged again                                          *)

MaxTitleLen == 3
MaxApply == 2

\* a capital, a small letter, a digit, the underscore (the word characters),
\* white space, the hyphen and two characters that are stripped
TitleChars == {"A", "b", "1", "_", " ", "-", "!", ","}

RECURSIVE SeqsUpTo(_, _)
SeqsUpTo(S, n) ==
    IF n = 0 THEN {<<>>}
    ELSE LET shorter == SeqsUpTo(S, n - 1)
         IN  shorter \cup {Append(t, c) : t \in shorter, c \in S}

Titles == SeqsUpTo(TitleChars, MaxTitleLen)

InitSlug ==
    /\ users = NoDocs
    /\ contents = NoDocs
    /\ tokens = {}
    /\ reqs = [s \in Slots |-> IdleReq]
    /\ nextUid = 0
    /\ nextCid = 0
    /\ started = 0
    /\ secret = [i \in {} |-> ""]
    /\ titleIn \in Titles
    /\ slugs = <<>>

\* generateSlug(titleIn), then generateSlug of what it returned
ApplyGenerateSlug ==
    /\ Len(slugs) < MaxApply
    /\ slugs' = Append(slugs,
                    generateSlug(IF slugs = <<>> THEN titleIn ELSE slugs[Len(slugs)]))
    /\ UNCHANGED <<users, contents, tokens, reqs, nextUid, nextCid, started, secret,
                   titleIn>>

NextSlug == ApplyGenerateSlug

SpecSlug == InitSlug /\ [][NextSlug]_vars

-----------------------------------------------------------------------------
(* createContent on titles that exercise every step of the slug derivation *)

TitleHello ==
    <<"H", "e", "l", "l", "o", ",", " ", "W", "o", "r", "l", "d", "!", "!">>
TitleSpaced == <<" ", "A", " ", " ", "-", " ", "b", "_", "1", " ">>
SlugHello == <<"h", "e", "l", "l", "o", "-", "w", "o", "r", "l", "d">>

CreateDerived(s) ==
    CreateContentFrom(s,
        {[title |-> t, body |-> "text", category |-> CategoryNews] :
            t \in {TitleHello, TitleSpaced, TitleAB, TitleAB2, TitleBang}}
        \cup {[title |-> TitleHello, body |-> "text", category |-> CategoryNews,
               slug |-> SlugX],
              [title |-> TitleHello, body |-> "text", category |-> CategoryNews,
               slug |-> <<>>]})

NextCreate ==
    \E s \in Slots :
        \/ Protect(s, {"createContent"})
        \/ HasContentAccess(s)
        \/ CreateDerived(s)
        \/ CreateContentSave(s)
        \/ CreateContentPopulate(s)
        \/ Close(s)

SpecCreate == InitContent /\ [][NextCreate]_vars

-----------------------------------------------------------------------------
(* contentController.getAllContent *)

DefaultPage == 1
DefaultLimit == 10

\* timestamps: true.  createdAt is the time of the insert; documents are
\* numbered in the order of their inserts, and two inserts are taken to
\* fall on different instants.
createdAt(c) == c._id

\* tags.split(",")
RECURSIVE SplitComma(_)
SplitComma(s) ==
    LET commas == {i \in 1..Len(s) : s[i] = ","}
    IN  IF commas = {} THEN <<s>>
        ELSE LET i == CHOOSE j \in commas : \A k \in commas : j <= k
             IN  <<SubSeq(s, 1, i - 1)>> \o SplitComma(SubSeq(s, i + 1, Len(s)))

\* const { page = 1, limit = 10 } = req.query
QueryPage(q) == IF Has(q, "page") THEN q.page ELSE DefaultPage
QueryLimit(q) == IF Has(q, "limit") THEN q.limit ELSE DefaultLimit

MutSkipWholePages(page, limit) == page * limit

\* const skip = (page - 1) * limit
Skip(page, limit) == (page - 1) * limit

\* the filter built from the query, as the store evaluates it on a document
Matches(c, q) ==
    /\ TruthyText(q, "category") => c.category = SetCategory(q.category)
    /\ TruthyStr(q, "status") => c.status = q.status
    /\ TruthyText(q, "tags") =>
            \E i \in DOMAIN c.tags : c.tags[i] \in Range(SetTags(SplitComma(q.tags)))

\* .sort({ createdAt: -1 })
RECURSIVE SortNewest(_)
SortNewest(ids) ==
    IF ids = {} THEN <<>>
    ELSE LET m == CHOOSE i \in ids :
                    \A j \in ids : createdAt(contents[i]) >= createdAt(contents[j])
         IN  <<contents[m]>> \o SortNewest(ids \ {m})

\* Content.find(query).populate(...).sort(...).limit(limit).skip(skip)
FindContents(q, skip, limit) ==
    LET sorted == SortNewest({i \in DOMAIN contents : Matches(contents[i], q)})
        last == IF skip + limit < Len(sorted) THEN skip + limit ELSE Len(sorted)
        page == IF skip < last THEN SubSeq(sorted, skip + 1, last) ELSE <<>>
    IN  [k \in 1..Len(page) |->
            [doc |-> page[k], author |-> Populate(page[k].author_id)]]

\* Content.countDocuments(query)
CountDocuments(q) == Cardinality({i \in DOMAIN contents : Matches(contents[i], q)})

\* Math.ceil(a / b) for a >= 0, b >= 1
Ceil(a, b) == (a + b - 1) \div b

MaxStored == 3
MaxPage == 3
MaxLimit == 2

TagT1 == <<"t", "1">>
TagT2 == <<"t", "2">>
CategoryTechTrimmed == <<"t", "e", "c", "h">>

\* one optional field of a query string
Opt(f, values) == {NoMods} \cup {f :> v : v \in values}

\* req.query of getAllContent; page and limit are decimal numerals >= 1
ListQueries ==
    {c @@ st @@ t @@ pg @@ l :
        c \in Opt("category", {CategoryNews, CategoryTechTrimmed}),
        st \in Opt("status", {"published"}),
        t \in Opt("tags", {TagT1, TagT2 \o <<",">> \o <<"t", "9">>}),
        pg \in Opt("page", 1..MaxPage),
        l \in Opt("limit", 1..MaxLimit)}

\* the find, with the authors populated
GetAllContentFrom(s, queries) ==
    /\ Free(s)
    /\ \E q \in queries :
        LET data == FindContents(q, Skip(QueryPage(q), QueryLimit(q)), QueryLimit(q))
        IN  SetReq(s, [Arrive("getAllContent") EXCEPT
                            !.pc = "getAllContent.count", !.query = q,
                            !.list = [NoList EXCEPT !.data = data]])
    /\ started' = started + 1
    /\ UNCHANGED <<users, contents, tokens, nextUid, nextCid, secret, titleIn, slugs>>

GetAllContent(s) == GetAllContentFrom(s, ListQueries)

\* the count, then the 200
GetAllContentCount(s) ==
    LET r == reqs[s]
        total == CountDocuments(r.query)
    IN  /\ r.pc = "getAllContent.count"
        /\ SetReq(s, [Respond(r, 200, "") EXCEPT
                        !.list = [data |-> r.list.data, count |-> Len(r.list.data),
                                  total |-> total, page |-> QueryPage(r.query),
                                  pages |-> Ceil(total, QueryLimit(r.query))]])
        /\ UNCHANGED <<users, contents, tokens, nextUid, nextCid, started, secret, titleIn, slugs>>

\* what earlier createContent requests stored: news/published tagged t1,
\* news/draft without tags, tech/published tagged t2 and t1
StoredNews ==
    [title |-> TitleC, body |-> "text", category |-> CategoryNews,
     status |-> "published", tags |-> <<TagT1>>]
StoredDraft == [title |-> TitleC, body |-> "text", category |-> CategoryNews]
StoredTech ==
    [title |-> TitleC, body |-> "text", category |-> CategoryTech,
     status |-> "published", tags |-> <<TagT2, TagT1>>]

StoredBodies == {StoredNews, StoredDraft, StoredTech}

\* the i-th stored record: its own slug, authors 2 and 1 in turn
StoredContent(i, body) ==
    ApplyContentMods(BlankContent(i),
        NewContentPaths(("slug" :> [j \in 1..i |-> "p"]) @@ body,
                        Population[IF i % 2 = 1 THEN 2 ELSE 1]))

Stores ==
    {[i \in 1..Len(bs) |-> StoredContent(i, bs[i])] : bs \in SeqsUpTo(StoredBodies, MaxStored)}

InitList ==
    /\ users = Population
    /\ contents \in Stores
    /\ tokens = {generateAuthToken(Population[i]) : i \in DOMAIN Population}
    /\ reqs = [s \in Slots |-> IdleReq]
    /\ nextUid = Len(Population)
    /\ nextCid = Len(contents)
    /\ started = 0
    /\ secret = [i \in DOMAIN Population |-> "secret1"]
    /\ titleIn = <<>>
    /\ slugs = <<>>

\* the listing writes nothing, so one request at a time shows every response
NextList ==
    \/ GetAllContent(1)
    \/ GetAllContentCount(1)
    \/ Close(1)

SpecList == InitList /\ [][NextList]_vars

-----------------------------------------------------------------------------
(* contentController.getContentById, getContentBySlug; the three reads next *)
(* to deleteUser                                                           *)

\* req.params.id: the stored records and one that is not stored
ReadParams == 1..(MaxContents + 1)

\* Content.findById(req.params.id).populate(...)
GetContentById(s) ==
    /\ Free(s)
    /\ \E id \in ReadParams :
        LET r == [Arrive("getContentById") EXCEPT !.param = id]
            content == FindContentById(id)
        IN  SetReq(s,
                IF content._id = 0 THEN Respond(r, 404, "Content not found")
                ELSE [Respond(r, 200, "") EXCEPT
                        !.doc = content, !.author = Populate(content.author_id)])
    /\ started' = started + 1
    /\ UNCHANGED <<users, contents, tokens, nextUid, nextCid, secret, titleIn, slugs>>

\* Content.findOne({ slug: req.params.slug }).populate(...)
GetContentBySlug(s) ==
    /\ Free(s)
    \* req.params.slug: a stored slug, a stored slug in capitals, one not stored
    /\ \E x \in {<<"p">>, <<"P", "P">>, SlugX} :
        LET r == [Arrive("getContentBySlug") EXCEPT !.query = [slug |-> x]]
            content == FindContentBySlug(x)
        IN  SetReq(s,
                IF content._id = 0 THEN Respond(r, 404, "Content not found")
                ELSE [Respond(r, 200, "") EXCEPT
                        !.doc = content, !.author = Populate(content.author_id)])
    /\ started' = started + 1
    /\ UNCHANGED <<users, contents, tokens, nextUid, nextCid, secret, titleIn, slugs>>

GetAllContentRead(s) ==
    GetAllContentFrom(s, {NoMods, [status |-> "published"], [limit |-> 1]})

\* two stored records, the first by user 2 and the second by user 1
InitRead ==
    /\ users = Population
    /\ contents = <<StoredContent(1, StoredNews), StoredContent(2, StoredDraft)>>
    /\ tokens = {generateAuthToken(Population[i]) : i \in DOMAIN Population}
    /\ reqs = [s \in Slots |-> IdleReq]
    /\ nextUid = Len(Population)
    /\ nextCid = 2
    /\ started = 0
    /\ secret = [i \in DOMAIN Population |-> "secret1"]
    /\ titleIn = <<>>
    /\ slugs = <<>>

NextRead ==
    \E s \in Slots :
        \/ Protect(s, {"deleteUser"})
        \/ AdminOnly(s)
        \/ DeleteUser(s)
        \/ DeleteUserDelete(s)
        \/ GetContentById(s)
        \/ GetContentBySlug(s)
        \/ GetAllContentRead(s)
        \/ GetAllContentCount(s)
        \/ Close(s)

SpecRead == InitRead /\ [][NextRead]_vars

-----------------------------------------------------------------------------
(* updateUser next to createContent: capabilities that change while tokens *)
(* issued earlier are still in use                                         *)

\* updateUser with bodies that clear or grant a capability
UpdateUserGrant(s) ==
    UpdateUserFrom(s,
        {[isAdmin |-> TRUE], [isAdmin |-> FALSE],
         [roles |-> [accessContent |-> TRUE]], [roles |-> [accessContent |-> FALSE]]})

CreateContentAB(s) ==
    CreateContentFrom(s, {[title |-> TitleAB, body |-> "text", category |-> CategoryNews]})

NextGrant ==
    \E s \in Slots :
        \/ Protect(s, {"updateUser", "createContent"})
        \/ AdminOnly(s)
        \/ HasContentAccess(s)
        \/ UpdateUserGrant(s)
        \/ UpdateUserSave(s)
        \/ CreateContentAB(s)
        \/ CreateContentSave(s)
        \/ CreateContentPopulate(s)
        \/ Close(s)

SpecGrant == InitContent /\ [][NextGrant]_vars

-----------------------------------------------------------------------------
(* Every write route of both controllers, starting from the admin alone *)

\* a second user with content access, and an email that is already held
RegisterUserAll(s) ==
    RegisterUserFrom(s,
        {[name |-> NameAnn, email |-> EmailB, password |-> "secret1",
          roles |-> [accessContent |-> TRUE]],
         [name |-> NameAnn, email |-> EmailA, password |-> "secret1"]})

\* an email that may be in use next to another change, and a plain change
UpdateUserAll(s) ==
    UpdateUserFrom(s, {[email |-> EmailB, isAdmin |-> FALSE], [name |-> NameBob]})

CreateContentAll(s) ==
    CreateContentFrom(s,
        {[title |-> TitleAB, body |-> "text", category |-> CategoryNews],
         [title |-> TitleC, body |-> "text", category |-> CategoryNews,
          slug |-> SlugX]})

UpdateContentAll(s) ==
    UpdateContentFrom(s, {[slug |-> SlugX], [status |-> "published"]})

InitAll ==
    /\ users = <<Population[1]>>
    /\ contents = NoDocs
    /\ tokens = {generateAuthToken(Population[1])}
    /\ reqs = [s \in Slots |-> IdleReq]
    /\ nextUid = 1
    /\ nextCid = 0
    /\ started = 0
    /\ secret = <<"secret1">>
    /\ titleIn = <<>>
    /\ slugs = <<>>

NextAll ==
    \E s \in Slots :
        \/ Protect(s, {"createContent", "updateContent", "deleteContent",
                       "updateUser", "deleteUser"})
        \/ AdminOnly(s)
        \/ HasContentAccess(s)
        \/ RegisterUserAll(s)
        \/ RegisterUserSave(s)
        \/ UpdateUserAll(s)
        \/ UpdateUserEmail(s)
        \/ UpdateUserSave(s)
        \/ DeleteUser(s)
        \/ DeleteUserDelete(s)
        \/ CreateContentAll(s)
        \/ CreateContentSave(s)
        \/ CreateContentPopulate(s)
        \/ UpdateContentAll(s)
        \/ UpdateContentSlug(s)
        \/ UpdateContentSave(s)
        \/ UpdateContentPopulate(s)
        \/ DeleteContent(s)
        \/ DeleteContentDelete(s)
        \/ Close(s)

SpecAll == InitAll /\ [][NextAll]_vars

-----------------------------------------------------------------------------
(* Properties *)

\* slot s takes a step
Steps(s) == reqs'[s] # reqs[s]

\* C1: updateContent and deleteContent by an actor that is neither the author
\* of the record nor an admin are answered 403 and leave the collection as it
\* was; a record is changed or removed only by a request of its author or of
\* an admin.
C1_AuthorOrAdmin ==
    [][/\ \A s \in Slots :
            (/\ reqs[s].pc \in {"updateContent", "deleteContent"}
             /\ Steps(s)
             /\ reqs'[s].param \in DOMAIN contents
             /\ contents[reqs'[s].param].author_id # reqs[s].user._id
             /\ ~reqs[s].user.isAdmin)
            => /\ reqs'[s].pc = "done"
               /\ reqs'[s].status = 403
               /\ contents' = contents
       /\ \A c \in DOMAIN contents :
            (c \notin DOMAIN contents' \/ contents'[c] # contents[c])
            => \E s \in Slots :
                /\ Steps(s)
                /\ reqs[s].route \in {"updateContent", "deleteContent"}
                /\ reqs[s].param = c
                /\ (contents[c].author_id = reqs[s].user._id \/ reqs[s].user.isAdmin)]_vars

\* C1 witness: an update by a holder of accessContent that is not the author
\* was answered 403 while the record is stored.
C1_Witness ==
    \E s \in Slots :
        /\ reqs[s].pc = "done"
        /\ reqs[s].route = "updateContent"
        /\ reqs[s].status = 403
        /\ reqs[s].message = "Not authorized to update this content"
        /\ reqs[s].param \in DOMAIN contents

\* C2: no two stored content records have the same slug.
C2_SlugUnique ==
    \A i \in DOMAIN contents, j \in DOMAIN contents :
        i # j => contents[i].slug # contents[j].slug

\* C2 witness: two records are stored and a createContent that passed the
\* lookup was refused by the index at its write.
C2_Witness ==
    /\ Cardinality(DOMAIN contents) = 2
    /\ \E s \in Slots :
        /\ reqs[s].pc = "done"
        /\ reqs[s].route = "createContent"
        /\ reqs[s].status = 500
        /\ FinalSlug(reqs[s].body) # <<>>

\* C3 (as claimed): a createContent that is refused while its final slug is
\* held by a stored record is answered 400 and adds no record, at the lookup
\* and at the write.
C3_SlugConflictIs400 ==
    [][\A s \in Slots :
        (/\ reqs[s].pc \in {"createContent", "createContent.save"}
         /\ reqs'[s].pc = "done"
         /\ TruthyText(reqs'[s].body, "title")
         /\ TruthyStr(reqs'[s].body, "body")
         /\ TruthyText(reqs'[s].body, "category")
         /\ \E c \in DOMAIN contents :
                contents[c].slug = SetSlug(FinalSlug(reqs'[s].body)))
        => /\ reqs'[s].status = 400
           /\ contents' = contents]_vars

\* the outcome of a capability check that passes exactly when pass holds
GateOutcome(s, pass) ==
    /\ users' = users /\ contents' = contents /\ tokens' = tokens
    /\ IF pass
          THEN reqs'[s].pc = reqs[s].route /\ reqs'[s].status = 0
          ELSE /\ reqs'[s].pc = "done"
               /\ reqs'[s].status = 403
               /\ reqs'[s].reached # "handler"

\* C9: adminOnly lets a request go on iff its user is an admin,
\* hasContentAccess iff its user is an admin or holds accessContent,
\* hasProductAccess iff its user is an admin or holds accessProduct; any other
\* request is answered 403 before its handler, and no check changes a store.
C9_Gates ==
    /\ [](\A s \in Slots :
            reqs[s].user._id # 0
            => (hasProductAccess(reqs[s].user)
                    <=> (reqs[s].user.isAdmin \/ reqs[s].user.roles.accessProduct)))
    /\ [][\A s \in Slots :
            /\ (reqs[s].pc = "adminOnly" /\ Steps(s))
                    => GateOutcome(s, reqs[s].user.isAdmin)
            /\ (reqs[s].pc = "hasContentAccess" /\ Steps(s))
                    => GateOutcome(s, reqs[s].user.isAdmin
                                        \/ reqs[s].user.roles.accessContent)]_vars

\* C9 witness: one request was refused by adminOnly and another by
\* hasContentAccess.
C9_Witness ==
    \E s \in Slots, t \in Slots :
        /\ reqs[s].pc = "done" /\ reqs[s].status = 403
        /\ reqs[s].message = "Access denied. Admin privileges required."
        /\ reqs[t].pc = "done" /\ reqs[t].status = 403
        /\ reqs[t].message = "Access denied. Content access permission required."

ContentFields == {"title", "slug", "body", "category", "tags", "status"}

\* C10: the write of a successful updateContent changes, in the record it
\* updates, only fields that the body holds; the author reference and every
\* field the body omits keep their stored values, and no other record changes.
C10_PartialUpdate ==
    [][\A s \in Slots :
        (reqs[s].pc = "updateContent.save" /\ reqs'[s].pc = "updateContent.populate")
        => /\ DOMAIN contents' = DOMAIN contents
           /\ \A c \in DOMAIN contents :
                /\ contents'[c].author_id = contents[c].author_id
                /\ \A f \in ContentFields :
                        (c # reqs[s].param \/ ~Has(reqs[s].body, f))
                        => contents'[c][f] = contents[c][f]]_vars

\* C10 witness: an update that carried only status = published succeeded on a
\* record created as a draft, which is now published under its title and slug.
C10_Witness ==
    \E s \in Slots :
        /\ reqs[s].pc = "done"
        /\ reqs[s].route = "updateContent"
        /\ reqs[s].status = 200
        /\ reqs[s].body = [status |-> "published"]
        /\ reqs[s].param \in DOMAIN contents
        /\ contents[reqs[s].param].status = "published"
        /\ contents[reqs[s].param].title = TitleAB
        /\ contents[reqs[s].param].slug = SlugAB

\* slot s answers its request in this step
Completes(s) == reqs[s].pc # "done" /\ reqs'[s].pc = "done"

\* a registerUser body with every required field
FullRegisterBody(b) ==
    TruthyText(b, "name") /\ TruthyText(b, "email") /\ TruthyStr(b, "password")

\* C4 (as claimed): once a registerUser with some email has been answered 201
\* and that user is stored, every other registerUser with the same email is
\* answered 400 'User with this email already exists' and stores nothing,
\* however its steps interleave with the first one's write.
C4_SecondRegisterIsConflict ==
    [][\A s \in Slots, t \in Slots :
        (/\ s # t
         /\ Completes(t)
         /\ reqs'[t].route = "registerUser"
         /\ FullRegisterBody(reqs'[t].body)
         /\ reqs[s].pc = "done"
         /\ reqs[s].route = "registerUser"
         /\ reqs[s].status = 201
         /\ reqs[s].body.email = reqs'[t].body.email
         /\ reqs[s].token.id \in DOMAIN users)
        => /\ reqs'[t].status = 400
           /\ reqs'[t].message = "User with this email already exists"
           /\ users' = users]_vars

\* C5: no two stored users have the same email.
C5_EmailUnique ==
    \A i \in DOMAIN users, j \in DOMAIN users :
        i # j => users[i].email # users[j].email

\* C5 witness: two users are stored and a registerUser that passed the lookup
\* was refused by the index at its write.
C5_Witness ==
    /\ Cardinality(DOMAIN users) = 2
    /\ \E s \in Slots :
        /\ reqs[s].pc = "done"
        /\ reqs[s].route = "registerUser"
        /\ reqs[s].status = 500
        /\ reqs[s].body.password \in Passwords

\* C6: the stored password of every user is the hash of the secret last
\* written for that user and is not that secret, and an updateUser without a
\* password leaves every stored password as it was.
C6_PasswordHashed ==
    /\ [](\A i \in DOMAIN users :
            /\ users[i].password = Hash(secret[i])
            /\ users[i].password # secret[i]
            /\ users[i].password \notin Passwords \cup {ShortPassword})
    /\ [][\A s \in Slots :
            (/\ reqs[s].pc = "updateUser.save"
             /\ reqs'[s].pc = "done"
             /\ ~TruthyStr(reqs[s].body, "password"))
            => \A i \in DOMAIN users :
                    i \in DOMAIN users' /\ users'[i].password = users[i].password]_vars

\* C6 witness: a user registered with one secret now holds the hash of
\* another, and an updateUser without a password on that user has succeeded.
C6_Witness ==
    \E s \in Slots, i \in DOMAIN users :
        /\ secret[i] = "secret2"
        /\ users[i].password = Hash("secret2")
        /\ reqs[s].pc = "done"
        /\ reqs[s].route = "updateUser"
        /\ reqs[s].status = 200
        /\ reqs[s].param = i
        /\ ~Has(reqs[s].body, "password")

\* C7: a loginUser with the email and secret of a stored user is answered 200
\* with a token that carries that user's _id and email; with the email of a
\* stored user and another secret, or with an email of no stored user, it is
\* answered 401 'Invalid credentials' and no token, the same in both cases.
C7_Login ==
    [][\A s \in Slots :
        (/\ Completes(s)
         /\ reqs'[s].route = "loginUser"
         /\ TruthyText(reqs'[s].body, "email")
         /\ TruthyStr(reqs'[s].body, "password"))
        => LET b == reqs'[s].body
               known == {i \in DOMAIN users : users[i].email = b.email}
               right == {i \in known : users[i].password = Hash(b.password)}
               unknown == \A i \in DOMAIN users : users[i].email # SetEmail(b.email)
               refused == /\ reqs'[s].status = 401
                          /\ reqs'[s].message = "Invalid credentials"
                          /\ reqs'[s].token = NoToken
           IN  /\ right # {} =>
                    /\ reqs'[s].status = 200
                    /\ reqs'[s].token.kind = "jwt"
                    /\ reqs'[s].token.id \in right
                    /\ reqs'[s].token.email = b.email
                    /\ reqs'[s].token \in tokens'
               /\ (known # {} /\ right = {}) => refused
               /\ unknown => refused]_vars

\* C7 witness: two logins were refused, one for a stored email with a wrong
\* secret and one for an email that is not stored, with the same response.
C7_Witness ==
    \E s \in Slots, t \in Slots :
        /\ reqs[s].pc = "done" /\ reqs[s].route = "loginUser" /\ reqs[s].status = 401
        /\ reqs[t].pc = "done" /\ reqs[t].route = "loginUser" /\ reqs[t].status = 401
        /\ \E i \in DOMAIN users : users[i].email = reqs[s].body.email
        /\ \A i \in DOMAIN users : users[i].email # SetEmail(reqs[t].body.email)
        /\ reqs[s].message = reqs[t].message

\* C8: a request to a guarded route whose header holds no token, a token that
\* fails verification, or a token of a user that is not stored is answered 401
\* by protect, and nothing after protect runs; a request goes on only with the
\* stored record of its token's user attached.
C8_Protect ==
    /\ [](\A s \in Slots :
            (reqs[s].pc \notin {"idle", "done"} /\ RouteGate(reqs[s].route) # "")
            => /\ reqs[s].auth.kind = "jwt"
               /\ reqs[s].user._id = reqs[s].auth.id
               /\ reqs[s].reached # "")
    /\ [][\A s \in Slots :
            (reqs[s].pc = "idle" /\ reqs'[s].pc # "idle" /\ RouteGate(reqs'[s].route) # "")
            => IF reqs'[s].auth.kind = "jwt" /\ reqs'[s].auth.id \in DOMAIN users
                  THEN /\ reqs'[s].pc = RouteGate(reqs'[s].route)
                       /\ reqs'[s].user = Select(users[reqs'[s].auth.id])
                  ELSE /\ reqs'[s].pc = "done"
                       /\ reqs'[s].status = 401
                       /\ reqs'[s].reached = "protect"]_vars

\* C8 witness: a token of a user that has been deleted was refused by protect.
C8_Witness ==
    \E s \in Slots :
        /\ reqs[s].pc = "done"
        /\ reqs[s].status = 401
        /\ reqs[s].auth.kind = "jwt"
        /\ reqs[s].auth.id \notin DOMAIN users
        /\ reqs[s].reached = "protect"

-----------------------------------------------------------------------------
\* C11: generateSlug is idempotent: slugging the slug of any title returns
\* that slug again.
C11_SlugIdempotent ==
    Len(slugs) >= 2 => slugs[2] = slugs[1]

\* a title with white space around a hyphen, whose slug was slugged again
C11_Witness ==
    /\ Len(slugs) = 2
    /\ titleIn = <<" ", "-", " ">>
    /\ slugs[1] = <<"-">>

-----------------------------------------------------------------------------
\* C12: when createContent is called without a slug, the slug it stores is
\* the title lowercased, stripped of every character that is not a word
\* character, white space or a hyphen, with each white-space run replaced by
\* one hyphen, each run of hyphens collapsed to one, and trimmed; for the
\* title "Hello, World!!" the stored slug is "hello-world".
C12_DerivedSlug ==
    [][\A s \in Slots :
        (reqs[s].pc = "createContent.save" /\ Steps(s) /\ nextCid' = nextCid + 1
            /\ ~TruthyText(reqs[s].body, "slug"))
        => LET t == reqs[s].body.title
               stored == contents'[nextCid'].slug
           IN  /\ stored = Trim(CollapseHyphens(SpacesToHyphen(
                                StripOther(ToLowerCase(t)))))
               /\ t = TitleHello => stored = SlugHello]_vars

\* a record created from the title "Hello, World!!" alone is stored
C12_Witness ==
    \E s \in Slots :
        /\ reqs[s].pc = "done" /\ reqs[s].status = 201
        /\ reqs[s].body.title = TitleHello
        /\ ~TruthyText(reqs[s].body, "slug")
        /\ reqs[s].param \in DOMAIN contents
        /\ contents[reqs[s].param].slug = SlugHello

-----------------------------------------------------------------------------
\* the stored records that match every filter the query supplies: category
\* and status by equality, tags by holding one of the comma-separated tags
Matching(q) ==
    {i \in DOMAIN contents :
        /\ TruthyText(q, "category") => contents[i].category = q.category
        /\ TruthyStr(q, "status") => contents[i].status = q.status
        /\ TruthyText(q, "tags") =>
                Range(contents[i].tags) \cap Range(SplitComma(q.tags)) # {}}

\* the matching records created after record i
Newer(q, i) == {j \in Matching(q) : createdAt(contents[j]) > createdAt(contents[i])}

\* C13: for every store, every combination of the filters and all page >= 1,
\* limit >= 1, getAllContent returns exactly the records at positions
\* (page-1)*limit .. page*limit-1 of the matching records ordered newest
\* first; total is the number of matching records and pages is
\* ceil(total / limit).
C13_Pagination ==
    [][\A s \in Slots :
        LET q == reqs'[s].query
            page == IF Has(q, "page") THEN q.page ELSE 1
            limit == IF Has(q, "limit") THEN q.limit ELSE 10
            first == (page - 1) * limit
            left == Cardinality(Matching(q)) - first
            data == reqs'[s].list.data
        IN  /\ (reqs[s].pc = "idle" /\ reqs'[s].pc = "getAllContent.count") =>
                /\ Len(data) = IF left <= 0 THEN 0
                                ELSE IF left < limit THEN left ELSE limit
                /\ \A k \in 1..Len(data) :
                    /\ data[k].doc._id \in Matching(q)
                    /\ data[k].doc = contents[data[k].doc._id]
                    /\ Cardinality(Newer(q, data[k].doc._id)) = first + k - 1
            /\ (reqs[s].pc = "getAllContent.count" /\ reqs'[s].pc = "done") =>
                /\ reqs'[s].status = 200
                /\ data = reqs[s].list.data
                /\ reqs'[s].list.total = Cardinality(Matching(q))
                /\ reqs'[s].list.pages * limit >= reqs'[s].list.total
                /\ (reqs'[s].list.pages - 1) * limit < reqs'[s].list.total]_vars

\* the second page of two, of three records that match a category filter
C13_Witness ==
    \E s \in Slots :
        /\ reqs[s].pc = "done" /\ reqs[s].route = "getAllContent"
        /\ TruthyText(reqs[s].query, "category")
        /\ Has(reqs[s].query, "page") /\ reqs[s].query.page = 2
        /\ Has(reqs[s].query, "limit") /\ reqs[s].query.limit = 2
        /\ reqs[s].list.total = 3 /\ reqs[s].list.pages = 2
        /\ Len(reqs[s].list.data) = 1
        /\ reqs[s].list.data[1].doc._id = 1

-----------------------------------------------------------------------------
\* C14: the author reference of a stored record is the identifier of the
\* authenticated user whose createContent request stored it, whatever the
\* body says; a record created without a status is a draft; no later step
\* changes the author reference of a stored record.
C14_AuthorIsCreator ==
    [][/\ \A s \in Slots :
            (reqs[s].pc = "createContent.save" /\ Steps(s) /\ nextCid' = nextCid + 1)
            => /\ nextCid' \in DOMAIN contents'
               /\ contents'[nextCid'].author_id = reqs[s].auth.id
               /\ ~TruthyStr(reqs[s].body, "status")
                    => contents'[nextCid'].status = "draft"
       /\ \A i \in DOMAIN contents \cap DOMAIN contents' :
            contents'[i].author_id = contents[i].author_id]_vars

\* the record that user 2 created with a body naming user 3 as its author
\* has been updated, and user 2 is still its author
C14_Witness ==
    \E s \in Slots :
        /\ reqs[s].pc = "done" /\ reqs[s].route = "updateContent"
        /\ reqs[s].status = 200
        /\ reqs[s].param \in DOMAIN contents
        /\ contents[reqs[s].param].author_id = 2
        /\ \E t \in Slots :
            /\ reqs[t].pc = "done" /\ reqs[t].route = "createContent"
            /\ reqs[t].status = 201 /\ reqs[t].param = reqs[s].param
            /\ Has(reqs[t].body, "author_id") /\ reqs[t].body.author_id = 3

-----------------------------------------------------------------------------
\* the author that a read reports for a record is null when the record's
\* author is not stored
NullAuthor(doc, author) == doc.author_id \notin DOMAIN users => author = NoUser

\* C15: deleting a user removes no content record, and getContentById,
\* getContentBySlug and getAllContent on a record whose author is deleted
\* still answer 200 and report the author as null.
C15_DeletedAuthor ==
    [][\A s \in Slots :
        /\ (reqs[s].pc = "deleteUser.delete" /\ Steps(s)) => contents' = contents
        /\ (Completes(s) /\ reqs'[s].route = "getContentById"
                /\ reqs'[s].param \in DOMAIN contents)
            => /\ reqs'[s].status = 200
               /\ reqs'[s].doc = contents[reqs'[s].param]
               /\ NullAuthor(reqs'[s].doc, reqs'[s].author)
        /\ (Completes(s) /\ reqs'[s].route = "getContentBySlug"
                /\ \E i \in DOMAIN contents :
                        contents[i].slug = ToLowerCase(reqs'[s].query.slug))
            => /\ reqs'[s].status = 200
               /\ reqs'[s].doc.slug = ToLowerCase(reqs'[s].query.slug)
               /\ NullAuthor(reqs'[s].doc, reqs'[s].author)
        /\ (reqs[s].pc = "idle" /\ reqs'[s].pc = "getAllContent.count")
            => \A k \in DOMAIN reqs'[s].list.data :
                    NullAuthor(reqs'[s].list.data[k].doc, reqs'[s].list.data[k].author)
        /\ (Completes(s) /\ reqs'[s].route = "getAllContent")
            => reqs'[s].status = 200]_vars

\* user 2 is deleted; the record it authored is still stored, and both a
\* read by id and the listing have answered 200 with a null author
C15_Witness ==
    /\ 2 \notin DOMAIN users
    /\ 1 \in DOMAIN contents /\ contents[1].author_id = 2
    /\ \E s, t \in Slots :
        /\ reqs[s].pc = "done" /\ reqs[s].route = "getContentById"
        /\ reqs[s].status = 200 /\ reqs[s].param = 1 /\ reqs[s].author = NoUser
        /\ reqs[t].pc = "done" /\ reqs[t].route = "getAllContent"
        /\ reqs[t].status = 200
        /\ \E k \in DOMAIN reqs[t].list.data :
                /\ reqs[t].list.data[k].doc._id = 1
                /\ reqs[t].list.data[k].author = NoUser

-----------------------------------------------------------------------------
\* a createContent body that is missing a required field or is malformed
MalformedCreate(b) ==
    \/ ~TruthyText(b, "title") \/ ~TruthyStr(b, "body") \/ ~TruthyText(b, "category")
    \/ Len(b.title) > 200
    \/ TruthyStr(b, "status") /\ b.status \notin {"draft", "published"}
    \/ ~TruthyText(b, "slug") /\ generateSlug(b.title) = <<>>

\* an updateContent body with a malformed field
MalformedUpdate(b) ==
    \/ TruthyText(b, "title") /\ Len(b.title) > 200
    \/ TruthyStr(b, "status") /\ b.status \notin {"draft", "published"}

\* C16: a createContent or updateContent request of an authorized actor
\* whose input is missing or malformed (a required field missing, a title
\* over 200 characters, a status outside draft/published, a title whose
\* derived slug is empty) is answered 400, never 500.
C16_MalformedIs400 ==
    [][\A s \in Slots :
        /\ (Completes(s) /\ reqs[s].pc \in {"createContent", "createContent.save"}
                /\ MalformedCreate(reqs'[s].body))
            => reqs'[s].status = 400
        /\ (Completes(s) /\ reqs[s].pc = "updateContent.save"
                /\ MalformedUpdate(reqs'[s].body))
            => reqs'[s].status = 400]_vars

-----------------------------------------------------------------------------
\* C17: the capability checks decide on the user record as it is stored when
\* the request arrives, not on the isAdmin / roles claims of its token: a
\* token issued before an updateUser that cleared the capability is refused
\* with 403, and one issued before an updateUser that granted it is accepted.
C17_StoredRecordDecides ==
    [][\A s \in Slots :
        /\ (reqs[s].pc = "idle" /\ reqs'[s].pc \in {"adminOnly", "hasContentAccess"})
            => /\ reqs'[s].auth.id \in DOMAIN users
               /\ reqs'[s].user.isAdmin = users[reqs'[s].auth.id].isAdmin
               /\ reqs'[s].user.roles = users[reqs'[s].auth.id].roles
        /\ (reqs[s].pc = "hasContentAccess" /\ Steps(s))
            => IF reqs[s].user.isAdmin \/ reqs[s].user.roles.accessContent
                  THEN reqs'[s].pc = reqs[s].route
                  ELSE reqs'[s].pc = "done" /\ reqs'[s].status = 403
        /\ (reqs[s].pc = "adminOnly" /\ Steps(s))
            => IF reqs[s].user.isAdmin
                  THEN reqs'[s].pc = reqs[s].route
                  ELSE reqs'[s].pc = "done" /\ reqs'[s].status = 403]_vars

\* user 2 has lost content access, and a request carrying a token that
\* still claims it was refused with 403 by hasContentAccess
C17_Witness ==
    /\ 2 \in DOMAIN users /\ ~users[2].roles.accessContent
    /\ \E s \in Slots :
        /\ reqs[s].pc = "done" /\ reqs[s].reached = "hasContentAccess"
        /\ reqs[s].status = 403
        /\ reqs[s].auth.kind = "jwt" /\ reqs[s].auth.id = 2
        /\ reqs[s].auth.roles.accessContent

-----------------------------------------------------------------------------
\* the user record carries admin status or a role
Privileged(u) == u.isAdmin \/ u.roles.accessContent \/ u.roles.accessProduct

\* C18: a stored user is admin, or holds a role, only if a request that
\* passed protect and adminOnly set the flag: no step of registerUser or
\* loginUser stores a flag that was not stored before, and none issues a
\* token with isAdmin = true for a user that was not stored as admin.
C18_NoUnauthenticatedAdmin ==
    [][\A s \in Slots :
        (Steps(s) /\ reqs'[s].route \in {"registerUser", "loginUser"})
        => /\ \A i \in DOMAIN users' :
                Privileged(users'[i])
                => /\ i \in DOMAIN users
                   /\ users[i].isAdmin = users'[i].isAdmin
                   /\ users[i].roles = users'[i].roles
           /\ \A t \in tokens' \ tokens :
                t.isAdmin => t.id \in DOMAIN users /\ users[t.id].isAdmin]_vars

-----------------------------------------------------------------------------
\* the statuses of a refusal
Refusals == {400, 401, 403, 404}

\* C19: a request answered 400, 401, 403 or 404 has written nothing: the
\* step that answers so leaves both collections as they are, and a request
\* that has written to a collection is never answered so afterwards.
C19_RefusalWritesNothing ==
    [][\A s \in Slots :
        /\ (Completes(s) /\ reqs'[s].status \in Refusals)
            => users' = users /\ contents' = contents
        /\ (Steps(s) /\ (users' # users \/ contents' # contents))
            => \/ reqs'[s].pc = "done" /\ reqs'[s].status \notin Refusals
               \/ reqs'[s].pc \in {"createContent.populate", "updateContent.populate"}
        /\ (Completes(s)
                /\ reqs[s].pc \in {"createContent.populate", "updateContent.populate"})
            => reqs'[s].status \notin Refusals]_vars

\* updateUser was answered 400 for an email in use while its body also
\* asked to clear isAdmin, and the user is still stored as admin
C19_Witness ==
    \E s \in Slots :
        /\ reqs[s].pc = "done" /\ reqs[s].route = "updateUser"
        /\ reqs[s].status = 400
        /\ Has(reqs[s].body, "isAdmin") /\ ~reqs[s].body.isAdmin
        /\ reqs[s].param \in DOMAIN users /\ users[reqs[s].param].isAdmin

====
